---- MODULE Spec2Model ----
(***************************************************************************)
(* Model of clamav-stream's ScannedStream (src/src/lib.rs): a pull-driven  *)
(* adapter that mirrors every upstream chunk to a clamd connection using   *)
(* the zINSTREAM framing and passes the chunk through to the consumer.     *)
(*                                                                         *)
(* Bytes are integers 0..255.  A byte string (Bytes, &[u8]) is held        *)
(* run-length encoded: a sequence of runs [b |-> byte, n |-> count] with   *)
(* n >= 1 and no two adjacent runs of the same byte, so that equal byte    *)
(* strings have equal encodings and a chunk longer than CHUNK_SIZE stays   *)
(* small.  Text handed to str::contains / from_utf8 is a plain sequence.   *)
(***************************************************************************)
EXTENDS Integers, Sequences, FiniteSets, TLC

\* ------------------------------------------------------------------ bounds

\* Upstream yields at most MaxItems items (chunks or errors) before it ends.
MaxItems == 2

\* ------------------------------------------------- constants of lib.rs

CHUNK_SIZE == 4096

\* ------------------------------------------------------ byte-string helpers

Min(a, b) == IF a <= b THEN a ELSE b

\* str::contains on byte strings: some window of res equals pat.
contains(res, pat) ==
    \E i \in 0..(Len(res) - Len(pat)) : SubSeq(res, i + 1, i + Len(pat)) = pat

\* "OK" and "FOUND", the two patterns of read_stream_response.
OK == <<79, 75>>

FOUND == <<70, 79, 85, 78, 68>>

\* A UTF-8 continuation byte.
IsCont(b) == b >= 128 /\ b <= 191

\* std::str::from_utf8 succeeds: number of bytes of the well-formed scalar
\* value that starts at position i of s, or 0 when there is none.
Utf8Width(s, i) ==
    LET b0 == s[i]
        n  == Len(s)
        b1 == IF i + 1 <= n THEN s[i + 1] ELSE 0
        b2 == IF i + 2 <= n THEN s[i + 2] ELSE 0
        b3 == IF i + 3 <= n THEN s[i + 3] ELSE 0
    IN  IF b0 < 128 THEN 1
        ELSE IF b0 >= 194 /\ b0 <= 223
             THEN (IF IsCont(b1) THEN 2 ELSE 0)
        ELSE IF b0 = 224
             THEN (IF b1 >= 160 /\ b1 <= 191 /\ IsCont(b2) THEN 3 ELSE 0)
        ELSE IF (b0 >= 225 /\ b0 <= 236) \/ b0 = 238 \/ b0 = 239
             THEN (IF IsCont(b1) /\ IsCont(b2) THEN 3 ELSE 0)
        ELSE IF b0 = 237
             THEN (IF b1 >= 128 /\ b1 <= 159 /\ IsCont(b2) THEN 3 ELSE 0)
        ELSE IF b0 = 240
             THEN (IF b1 >= 144 /\ b1 <= 191 /\ IsCont(b2) /\ IsCont(b3)
                   THEN 4 ELSE 0)
        ELSE IF b0 >= 241 /\ b0 <= 243
             THEN (IF IsCont(b1) /\ IsCont(b2) /\ IsCont(b3) THEN 4 ELSE 0)
        ELSE IF b0 = 244
             THEN (IF b1 >= 128 /\ b1 <= 143 /\ IsCont(b2) /\ IsCont(b3)
                   THEN 4 ELSE 0)
        ELSE 0

RECURSIVE Utf8From(_, _)
Utf8From(s, i) ==
    IF i > Len(s) THEN TRUE
    ELSE LET w == Utf8Width(s, i)
         IN  w > 0 /\ Utf8From(s, i + w)

\* A variant of from_utf8_ok: every body decodes (from_utf8_lossy).
from_utf8_lossy(body) == TRUE

from_utf8_ok(body) == Utf8From(body, 1)

\* ------------------------------------------------- run-length byte strings

Run(b, n) == [b |-> b, n |-> n]

\* The number of bytes of s (slice::len).
RECURSIVE blen(_)
blen(s) == IF s = << >> THEN 0 ELSE s[1].n + blen(Tail(s))

\* s followed by t, the runs that meet merged when they hold the same byte.
cat(s, t) ==
    IF s = << >> THEN t
    ELSE IF t = << >> THEN s
    ELSE LET x == s[Len(s)]
             y == t[1]
         IN  IF x.b = y.b
             THEN SubSeq(s, 1, Len(s) - 1) \o << Run(x.b, x.n + y.n) >> \o Tail(t)
             ELSE s \o t

\* The first k bytes of s (&s[..k]).
RECURSIVE take(_, _)
take(s, k) ==
    IF k <= 0 \/ s = << >> THEN << >>
    ELSE IF s[1].n <= k THEN << s[1] >> \o take(Tail(s), k - s[1].n)
    ELSE << Run(s[1].b, k) >>

\* s without its first k bytes (&s[k..]).
RECURSIVE drop(_, _)
drop(s, k) ==
    IF k <= 0 \/ s = << >> THEN s
    ELSE IF s[1].n <= k THEN drop(Tail(s), k - s[1].n)
    ELSE << Run(s[1].b, s[1].n - k) >> \o Tail(s)

\* The byte string of a plain sequence of bytes.
RECURSIVE pack(_)
pack(p) == IF p = << >> THEN << >> ELSE cat(<< Run(p[1], 1) >>, pack(Tail(p)))

\* The plain sequence of bytes of a byte string.
RECURSIVE unpack(_)
unpack(s) ==
    IF s = << >> THEN << >>
    ELSE [i \in 1..s[1].n |-> s[1].b] \o unpack(Tail(s))

\* A variant of to_be_bytes: least significant byte first (to_le_bytes).
to_le_bytes(len) ==
    pack(<< len % 256, (len \div 256) % 256,
            (len \div 65536) % 256, (len \div 16777216) % 256 >>)

\* len.to_be_bytes() of `chunk.len() as u32`: the four bytes of the low 32
\* bits, most significant first (the `% 256` of the top byte is the cast).
to_be_bytes(len) ==
    pack(<< (len \div 16777216) % 256, (len \div 65536) % 256,
            (len \div 256) % 256, len % 256 >>)

\* A variant of chunks: an input that fits is one slice, the empty one too.
RECURSIVE chunks_withEmpty(_, _)
chunks_withEmpty(bytes, size) ==
    IF blen(bytes) <= size THEN << bytes >>
    ELSE << take(bytes, size) >> \o chunks_withEmpty(drop(bytes, size), size)

\* bytes.as_ref().chunks(CHUNK_SIZE): consecutive slices of at most size
\* bytes, the last one possibly short; no slice for an empty input.
RECURSIVE chunks(_, _)
chunks(bytes, size) ==
    IF blen(bytes) = 0 THEN << >>
    ELSE << take(bytes, size) >> \o chunks(drop(bytes, size), size)

\* b"zINSTREAM\0"
START == pack(<<122, 73, 78, 83, 84, 82, 69, 65, 77, 0>>)

FINISH == pack(<<0, 0, 0, 0>>)

\* ------------------------------------------------------------ input domains

\* b"Hello "
Hello == pack(<<72, 101, 108, 108, 111, 32>>)

\* A chunk one byte longer than CHUNK_SIZE whose content changes inside the
\* first slice, not at the slice boundary.
Big == << Run(97, CHUNK_SIZE - 1000), Run(98, 1001) >>

\* A chunk of exactly CHUNK_SIZE bytes.
Full == << Run(99, CHUNK_SIZE) >>

\* The chunks upstream may produce: empty, short, exactly CHUNK_SIZE, longer.
ChunkValues == { << >>, Hello, Full, Big }

\* The description of the one upstream error value.
UpstreamError == pack(<<101>>)

\* "stream: OK\0"
RespStreamOk == <<115, 116, 114, 101, 97, 109, 58, 32, 79, 75, 0>>

\* "Eicar FOUND\0"
RespFound == <<69, 105, 99, 97, 114, 32, 70, 79, 85, 78, 68, 0>>

\* "OK FOUND"
RespBoth == <<79, 75, 32, 70, 79, 85, 78, 68>>

\* "KO"
RespNeither == <<75, 79>>

\* "OK" followed by a byte that is no UTF-8
RespBadUtf8 == <<79, 75, 255>>

\* "FOUND" followed by a byte that is no UTF-8
RespBadFound == <<70, 79, 85, 78, 68, 192>>

\* U+00E9 (two bytes) followed by "OK"
RespTwoByte == <<195, 169, 79, 75>>

\* What the daemon may answer.
Responses ==
    { OK, RespStreamOk, RespFound, RespBoth, RespNeither, << >>,
      RespBadUtf8, RespBadFound, RespTwoByte }

\* ------------------------------------------------------------------- items

\* Poll results of the upstream stream (Poll<Option<Result<Bytes, E>>>).
Pending == [t |-> "Pending", v |-> << >>]

SomeOk(bytes) == [t |-> "Ok", v |-> bytes]

SomeErr(e) == [t |-> "Err", v |-> e]

None == [t |-> "None", v |-> << >>]

\* Items of ScannedStream: Result<Bytes, Error>, Error as in error.rs.
OkItem(bytes) == [t |-> "Ok", v |-> bytes]

ErrorIo == [t |-> "Io", v |-> << >>]

ErrorUtf8 == [t |-> "Utf8", v |-> << >>]

ErrorStream(e) == [t |-> "Stream", v |-> e]

ErrorScan(msg) == [t |-> "Scan", v |-> msg]

\* ------------------------------------------------------------------- state

VARIABLES
    input,      \* upstream: the items it has yielded so far, and whether it ended
    inner,      \* the bytes the connection has accepted so far
    started,    \* ScannedStream.started
    finished,   \* ScannedStream.finished
    trace,      \* every write_all / read_to_end attempted on the connection
    response,   \* the bodies read_to_end has returned
    out,        \* the items poll_next has returned to the consumer
    last        \* what the latest poll_next returned: New, Pending, Some, None

vars == <<input, inner, started, finished, trace, response, out, last>>

\* ScannedStream::new: binds the handles, touches nothing.
Init ==
    /\ input = [yielded |-> << >>, done |-> FALSE]
    /\ inner = << >>
    /\ started = FALSE
    /\ finished = FALSE
    /\ trace = << >>
    /\ response = << >>
    /\ out = << >>
    /\ last = "New"


\* -------------------------------------------------------- connection I/O

\* One write_all of buf on the connection. fail: the connection refuses it;
\* part: how many leading bytes it accepted before refusing (write_all gives
\* up only with bytes still unwritten, so part < blen(buf)). The log entry
\* keeps the buffer, its length n and the number of bytes accepted.
write_stream(op, buf, fail, part) ==
    [ ok    |-> ~fail,
      bytes |-> IF fail THEN take(buf, part) ELSE buf,
      log   |-> [ op |-> op, ok |-> ~fail, n |-> blen(buf), buf |-> buf,
                  got |-> IF fail THEN part ELSE blen(buf) ] ]

\* The early return of write_clamav!: the writes of plan in order, stopping
\* at the first failing one. failAt = 0: none fails; failAt = k: the k-th does.
RECURSIVE write_clamav(_, _, _, _)
write_clamav(plan, k, failAt, part) ==
    IF k > Len(plan) THEN [ok |-> TRUE, bytes |-> << >>, log |-> << >>]
    ELSE LET w == write_stream(plan[k].op, plan[k].buf, k = failAt, part)
         IN  IF ~w.ok THEN [ok |-> FALSE, bytes |-> w.bytes, log |-> <<w.log>>]
             ELSE LET rest == write_clamav(plan, k + 1, failAt, part)
                  IN  [ ok    |-> rest.ok,
                        bytes |-> cat(w.bytes, rest.bytes),
                        log   |-> <<w.log>> \o rest.log ]

\* The choices of (failAt, part) a plan of writes admits.
FailChoices(plan) ==
    { <<0, 0>> } \cup
    { <<k, p>> \in (1..Len(plan)) \X {0, 1} : p < blen(plan[k].buf) }

\* A variant of NeedsPreamble: the started flag is not consulted.
NeedsPreamble_always(s) == TRUE

\* `if !*me.started`: the preamble is due.
NeedsPreamble(s) == ~s

\* `if *me.finished`: the terminal dialogue is over.
AlreadyFinished_never(f) == FALSE

AlreadyFinished(f) == f

\* The length prefix and the payload written for each slice of the chunk.
RECURSIVE Frames(_)
Frames(slices) ==
    IF slices = << >> THEN << >>
    ELSE << [op |-> "LEN", buf |-> to_be_bytes(blen(Head(slices)))],
            [op |-> "DATA", buf |-> Head(slices)] >> \o Frames(Tail(slices))

\* A variant of DataWrites: the preamble is put off until there is a slice
\* to send.
DataWrites_lazy(s, bytes) ==
    IF blen(bytes) = 0 THEN << >>
    ELSE (IF NeedsPreamble(s) THEN << [op |-> "START", buf |-> START] >> ELSE << >>)
         \o Frames(chunks(bytes, CHUNK_SIZE))

\* The writes of the data arm: the preamble when due, then the frames.
DataWrites(s, bytes) ==
    (IF NeedsPreamble(s) THEN << [op |-> "START", buf |-> START] >> ELSE << >>)
    \o Frames(chunks(bytes, CHUNK_SIZE))

\* A variant of Yielded: the consumer gets the first wire slice only.
Yielded_firstSlice(bytes) == take(bytes, CHUNK_SIZE)

\* What the data arm hands to the consumer after mirroring the chunk.
Yielded(bytes) == bytes

\* A variant of is_clean: the response must be "OK" and nothing else.
is_clean_exact(res) == res = OK

\* A variant of is_clean: "FOUND" is not looked for.
is_clean_okOnly(res) == contains(res, OK)

\* The verdict of read_stream_response on decoded text.
is_clean(res) == contains(res, OK) /\ ~contains(res, FOUND)

\* A variant of ScanMessage: the text without its last byte (a trailing NUL
\* trimmed).
ScanMessage_trimmed(res) == pack(SubSeq(res, 1, Len(res) - 1))

\* The message Error::Scan carries: res.to_string().
ScanMessage(res) == pack(res)

\* read_stream_response: rd.ok says whether read_to_end succeeded, rd.body
\* is what it read. The result is "Ok" or the error item.
read_stream_response(rd) ==
    IF ~rd.ok THEN ErrorIo
    ELSE IF ~from_utf8_ok(rd.body) THEN ErrorUtf8
    ELSE IF is_clean(rd.body) THEN [t |-> "Ok", v |-> << >>]
    ELSE ErrorScan(ScanMessage(rd.body))

\* What read_to_end may do: fail, or return any response.
ReadOutcomes ==
    { [ok |-> FALSE, body |-> << >>] } \cup
    { [ok |-> TRUE, body |-> r] : r \in Responses }


\* ---------------------------------------------------------------- upstream

\* What me.input.poll_next(cx) may return in the current state. The upstream
\* is a stream that stays ended once it has ended; before that it may be
\* pending, or yield a chunk or an error (at most MaxItems items in all).
UpstreamPolls ==
    { None } \cup
    (IF input.done THEN { } ELSE { Pending }) \cup
    (IF input.done \/ Len(input.yielded) >= MaxItems THEN { }
     ELSE { SomeOk(c) : c \in ChunkValues } \cup { SomeErr(UpstreamError) })

\* The upstream after returning res.
UpstreamAfter(res) ==
    IF res.t = "Pending" THEN input
    ELSE IF res.t = "None" THEN [input EXCEPT !.done = TRUE]
    ELSE [input EXCEPT !.yielded = Append(@, res)]

\* A variant of Arm: an upstream error is handled like the end of upstream.
Arm_errorFinishes(res) ==
    CASE res.t = "Pending" -> "pending"
      [] res.t = "Ok"      -> "data"
      [] res.t = "Err"     -> "finish"
      [] res.t = "None"    -> "finish"

\* The arm of `match me.input.poll_next(cx)` that res selects.
Arm(res) ==
    CASE res.t = "Pending" -> "pending"
      [] res.t = "Ok"      -> "data"
      [] res.t = "Err"     -> "error"
      [] res.t = "None"    -> "finish"

\* ------------------------------------------------------- poll_next, by arm

\* Poll::Pending => Poll::Pending
PendingArm ==
    /\ last' = "Pending"
    /\ UNCHANGED <<inner, started, finished, trace, response, out>>

\* Poll::Ready(Some(Ok(bytes))): preamble once, the frames, then the chunk.
DataArm(bytes, failAt, part) ==
    LET w == write_clamav(DataWrites(started, bytes), 1, failAt, part)
    IN  /\ started' = (IF NeedsPreamble(started) THEN TRUE ELSE started)
        /\ inner' = cat(inner, w.bytes)
        /\ trace' = trace \o w.log
        /\ out' = Append(out, IF w.ok THEN OkItem(Yielded(bytes)) ELSE ErrorIo)
        /\ last' = "Some"
        /\ UNCHANGED <<finished, response>>

\* A variant of ErrorArm: an upstream error also marks the relay finished.
ErrorArm_terminal(e) ==
    /\ out' = Append(out, ErrorStream(e))
    /\ last' = "Some"
    /\ finished' = TRUE
    /\ UNCHANGED <<inner, started, trace, response>>

\* Poll::Ready(Some(Err(err))) => Error::Stream
ErrorArm(e) ==
    /\ out' = Append(out, ErrorStream(e))
    /\ last' = "Some"
    /\ UNCHANGED <<inner, started, finished, trace, response>>

\* A variant of DoneArm: a finished relay reports pending instead of the end.
DoneArm_pending ==
    /\ last' = "Pending"
    /\ UNCHANGED <<inner, started, finished, trace, response, out>>

\* Poll::Ready(None) with finished set: `return Poll::Ready(None)`.
DoneArm ==
    /\ last' = "None"
    /\ UNCHANGED <<inner, started, finished, trace, response, out>>

\* Poll::Ready(None) with finished clear: the terminator and the response.
\* rd is consulted only when the terminator write succeeded.
FinishArm(failAt, part, rd) ==
    LET w == write_clamav(<< [op |-> "FINISH", buf |-> FINISH] >>, 1, failAt, part)
        r == read_stream_response(rd)
    IN  /\ finished' = TRUE
        /\ inner' = cat(inner, w.bytes)
        /\ UNCHANGED started
        /\ IF ~w.ok
           THEN /\ trace' = trace \o w.log
                /\ UNCHANGED response
                /\ out' = Append(out, ErrorIo)
                /\ last' = "Some"
           ELSE /\ trace' = trace \o w.log \o
                            << [ op |-> "READ", ok |-> rd.ok, n |-> Len(rd.body),
                                 buf |-> << >>, got |-> 0 ] >>
                /\ response' = (IF rd.ok THEN Append(response, rd.body) ELSE response)
                /\ out' = (IF r.t = "Ok" THEN out ELSE Append(out, r))
                /\ last' = (IF r.t = "Ok" THEN "None" ELSE "Some")

\* A pull in which upstream is pending.
PollPending ==
    \E res \in UpstreamPolls :
        /\ Arm(res) = "pending"
        /\ input' = UpstreamAfter(res)
        /\ PendingArm

\* A pull in which upstream yields a chunk; any of its writes may fail.
PollData ==
    \E res \in UpstreamPolls :
        /\ Arm(res) = "data"
        /\ input' = UpstreamAfter(res)
        /\ \E f \in FailChoices(DataWrites(started, res.v)) :
              DataArm(res.v, f[1], f[2])

\* A pull in which upstream yields an error.
PollError ==
    \E res \in UpstreamPolls :
        /\ Arm(res) = "error"
        /\ input' = UpstreamAfter(res)
        /\ ErrorArm(res.v)

\* A pull in which upstream is at its end and the relay has finished.
PollDone ==
    \E res \in UpstreamPolls :
        /\ Arm(res) = "finish" /\ AlreadyFinished(finished)
        /\ input' = UpstreamAfter(res)
        /\ DoneArm

\* A pull in which upstream is at its end and the relay has not finished;
\* the terminator write or the read may fail, the daemon answers anything.
PollFinish ==
    \E res \in UpstreamPolls :
        /\ Arm(res) = "finish" /\ ~AlreadyFinished(finished)
        /\ input' = UpstreamAfter(res)
        /\ \E f \in FailChoices(<< [op |-> "FINISH", buf |-> FINISH] >>) :
              \E rd \in (IF f[1] = 0 THEN ReadOutcomes
                         ELSE { [ok |-> FALSE, body |-> << >>] }) :
                  FinishArm(f[1], f[2], rd)

\* One call of ScannedStream::poll_next.
poll_next == PollPending \/ PollData \/ PollError \/ PollDone \/ PollFinish

Next == poll_next

Spec == Init /\ [][Next]_vars

\* The consumer keeps pulling and upstream does not stay pending for ever:
\* a pull that gets past `Poll::Pending` is eventually taken.
FairSpec ==
    /\ Init
    /\ [][Next]_vars
    /\ WF_vars(PollData \/ PollError \/ PollDone \/ PollFinish)


\* ------------------------------------------------- vocabulary of the claims

IsData(x) == x.t = "Ok"

IsError(x) == x.t # "Ok"

\* The chunks among a sequence of items, in order.
RECURSIVE DataOf(_)
DataOf(items) ==
    IF items = << >> THEN << >>
    ELSE (IF IsData(Head(items)) THEN << Head(items).v >> ELSE << >>)
         \o DataOf(Tail(items))

\* The positions of trace that attempted op.
Attempts(op) == { i \in DOMAIN trace : trace[i].op = op }

\* The positions of trace whose write or read failed.
Failures == { i \in DOMAIN trace : ~trace[i].ok }

\* Upstream has yielded chunks only, and no connection operation has failed.
NoUpstreamError == \A i \in DOMAIN input.yielded : input.yielded[i].t = "Ok"

NoConnectionFailure == Failures = { }

\* The relay has been pulled until it reported end-of-sequence.
ReportedEnd == last = "None"

\* out is exactly the chunks upstream yielded, each as one Ok item.
PassedThrough(items) ==
    /\ Len(items) = Len(input.yielded)
    /\ \A i \in DOMAIN items : items[i] = [t |-> "Ok", v |-> input.yielded[i].v]


\* ------------------------------------------------------------------ claims

\* C1 as stated: whenever upstream yielded chunks only, no connection
\* operation failed, the daemon's response contains "OK" and no "FOUND", and
\* the relay has reported end, the items produced are exactly the upstream
\* chunks, each as one Ok item, and nothing else.
C1_AsStated ==
    ( /\ ReportedEnd /\ NoUpstreamError /\ NoConnectionFailure
      /\ Len(response) = 1
      /\ contains(response[1], OK) /\ ~contains(response[1], FOUND) )
    => PassedThrough(out)

\* C1, amended: the same for every response that is valid UTF-8 text and
\* contains "OK" and no "FOUND".
C1_PassthroughIdentity ==
    ( /\ ReportedEnd /\ NoUpstreamError /\ NoConnectionFailure
      /\ Len(response) = 1 /\ from_utf8_ok(response[1])
      /\ contains(response[1], OK) /\ ~contains(response[1], FOUND) )
    => PassedThrough(out)

\* Two chunks, one of them longer than CHUNK_SIZE, passed through on a clean
\* verdict whose text is longer than "OK".
C1_Witness ==
    /\ ReportedEnd /\ NoConnectionFailure
    /\ response = << RespStreamOk >>
    /\ input.yielded = << SomeOk(Hello), SomeOk(Big) >>
    /\ out = << OkItem(Hello), OkItem(Big) >>

\* C2: whenever upstream yielded chunks only, no connection operation
\* failed, the response is valid text containing "FOUND", and the relay has
\* reported end, the items produced are the upstream chunks in order followed
\* by exactly one Scan error whose message is the whole response text.
C2_InfectionSurfacing ==
    ( /\ ReportedEnd /\ NoUpstreamError /\ NoConnectionFailure
      /\ Len(response) = 1 /\ from_utf8_ok(response[1])
      /\ contains(response[1], FOUND) )
    => /\ Len(out) = Len(input.yielded) + 1
       /\ PassedThrough(SubSeq(out, 1, Len(out) - 1))
       /\ out[Len(out)].t = "Scan"
       /\ unpack(out[Len(out)].v) = response[1]

\* Two chunks, then the verdict of a response that holds both "OK" and
\* "FOUND", then end.
C2_Witness ==
    /\ ReportedEnd /\ NoConnectionFailure
    /\ response = << RespBoth >>
    /\ Len(out) = 3
    /\ out[1] = OkItem(Big) /\ out[2] = OkItem(Hello)
    /\ out[3].t = "Scan"

\* The four bytes of n, most significant first.
BigEndian4(n) == [i \in 1..4 |-> (n \div (256 ^ (4 - i))) % 256]

\* The frames of one chunk: for each consecutive slice of at most CHUNK_SIZE
\* bytes, its length in four big-endian bytes and then the slice.
RECURSIVE FramedChunk(_)
FramedChunk(c) ==
    IF blen(c) = 0 THEN << >>
    ELSE LET k == Min(blen(c), CHUNK_SIZE)
         IN  BigEndian4(k) \o unpack(take(c, k)) \o FramedChunk(drop(c, k))

RECURSIVE FramedAll(_)
FramedAll(cs) ==
    IF cs = << >> THEN << >> ELSE FramedChunk(Head(cs)) \o FramedAll(Tail(cs))

\* C3: whenever upstream yielded at least one chunk and chunks only, no
\* connection operation failed and the relay has reported end, the bytes on
\* the connection are the preamble, the frames of every chunk in order, and
\* the four zero bytes, and nothing else.
C3_WireFraming ==
    ( /\ ReportedEnd /\ NoUpstreamError /\ NoConnectionFailure
      /\ Len(input.yielded) > 0 )
    => unpack(inner) =
           <<122, 73, 78, 83, 84, 82, 69, 65, 77, 0>>
           \o FramedAll(DataOf(input.yielded))
           \o <<0, 0, 0, 0>>

\* A short chunk and one that needs two frames were sent and terminated.
C3_Witness ==
    /\ ReportedEnd /\ NoConnectionFailure
    /\ input.yielded = << SomeOk(Hello), SomeOk(Big) >>
    /\ Attempts("LEN") = {2, 4, 6}
    /\ Attempts("FINISH") = {8}


\* C4 as stated: a Scan item is produced only once every chunk upstream
\* produces has been yielded, in upstream's order, and no data item follows
\* the Scan item.
C4_AsStated ==
    \A i \in DOMAIN out :
        out[i].t = "Scan" =>
            /\ input.done
            /\ DataOf(SubSeq(out, 1, i)) = DataOf(input.yielded)
            /\ \A j \in DOMAIN out : j > i => ~IsData(out[j])

\* C5 as stated: an upstream error that follows N chunks is produced, wrapped
\* as a Stream error, right after those N chunks, and from then on the
\* terminator is never written, whatever further pulls are made.
C5_AsStated ==
    \A i \in DOMAIN out :
        out[i].t = "Stream" =>
            /\ input.yielded[i] = SomeErr(out[i].v)
            /\ ( (NoConnectionFailure /\ \A j \in 1..(i - 1) : IsData(input.yielded[j]))
                 => SubSeq(out, 1, i - 1) = SubSeq(input.yielded, 1, i - 1) )
            /\ Attempts("FINISH") = { }

\* C6 as stated: a failed write or read makes its pull yield the I/O error
\* and leaves the relay done: no later write or read is attempted on the
\* connection and no later item is produced.
C6_AsStated ==
    Failures # { } =>
        /\ Failures = { Len(trace) }
        /\ out # << >> /\ out[Len(out)] = ErrorIo

\* C7: the preamble write, the terminator write and the response read are
\* each attempted at most once in a run, failed attempts included.
C7_SingleDialogue ==
    /\ Cardinality(Attempts("START")) <= 1
    /\ Cardinality(Attempts("FINISH")) <= 1
    /\ Cardinality(Attempts("READ")) <= 1

\* The preamble write failed, a later chunk was still framed, the terminator
\* write failed too, and the relay was pulled again after that.
C7_Witness ==
    /\ Attempts("START") = {1} /\ 1 \in Failures
    /\ Attempts("LEN") # { }
    /\ Attempts("FINISH") = { Len(trace) } /\ Len(trace) \in Failures
    /\ ReportedEnd

\* C8 as stated: an error item of any kind is the last item produced: no data
\* item and no second error item follows it.
C8_AsStated ==
    \A i \in DOMAIN out : IsError(out[i]) => i = Len(out)

\* C9: the terminator is written, the response read, a verdict produced (an
\* infected or undecodable one as an item, a clean one as end-of-sequence)
\* only when upstream has signalled its end.
C9_NoFinalizationWithoutExhaustion ==
    ( \/ Attempts("FINISH") # { } \/ Attempts("READ") # { }
      \/ response # << >> \/ finished \/ ReportedEnd
      \/ \E i \in DOMAIN out : out[i].t \in { "Scan", "Utf8" } )
    => input.done

\* Upstream ended after an error and a chunk, and the dialogue was finalized.
C9_Witness ==
    /\ input.done
    /\ input.yielded = << SomeErr(UpstreamError), SomeOk(Full) >>
    /\ Attempts("FINISH") # { } /\ Attempts("READ") # { }
    /\ out[Len(out)].t = "Scan"

\* C10 as stated: in every state, connection failures included, the data
\* items yielded are exactly the chunks pulled from upstream.
C10_AsStated == DataOf(out) = DataOf(input.yielded)

\* The chunks pulled whose place in out holds an I/O error instead.
Unmirrored ==
    { i \in DOMAIN input.yielded : IsData(input.yielded[i]) /\ out[i] = ErrorIo }

\* C10, amended: the items produced line up with the items pulled: a pulled
\* chunk is either yielded as one identical, unsplit item or replaced by one
\* I/O error, the latter exactly as often as a preamble, length or payload
\* write failed; no other data item is produced; without such a failure the
\* yielded chunks are exactly the pulled chunks.
C10_ChunkForChunk ==
    /\ Len(out) >= Len(input.yielded)
    /\ \A i \in DOMAIN input.yielded :
          IsData(input.yielded[i]) =>
              out[i] \in { OkItem(input.yielded[i].v), ErrorIo }
    /\ \A i \in DOMAIN out : i > Len(input.yielded) => ~IsData(out[i])
    /\ Cardinality(Unmirrored) =
           Cardinality({ i \in Failures : trace[i].op \in { "START", "LEN", "DATA" } })
    /\ (Unmirrored = { } => DataOf(out) = DataOf(input.yielded))

\* A chunk longer than CHUNK_SIZE came out whole, the next one was lost to a
\* failed write.
C10_Witness ==
    /\ input.yielded = << SomeOk(Big), SomeOk(Hello) >>
    /\ out = << OkItem(Big), ErrorIo >>

\* The position of out at which the finalizing pull put its item, if any:
\* every pull before it produced exactly one item per upstream item.
FinalItems == SubSeq(out, Len(input.yielded) + 1, Len(out))

\* C11: for every response text read at finalization, the finalizing pull
\* produces no item exactly when the text contains "OK" and no "FOUND"; in
\* every other case (with "FOUND", with both, with neither, empty) it
\* produces one Scan error whose message is the text, byte for byte.
C11_ClassificationRule ==
    \A k \in DOMAIN response :
        from_utf8_ok(response[k]) =>
            IF contains(response[k], OK) /\ ~contains(response[k], FOUND)
            THEN FinalItems = << >>
            ELSE /\ Len(FinalItems) = 1
                 /\ FinalItems[1].t = "Scan"
                 /\ unpack(FinalItems[1].v) = response[k]

\* The daemon answered with empty text after a chunk; the verdict carries it.
C11_Witness ==
    /\ response = << << >> >>
    /\ out = << OkItem(Hello), ErrorScan(<< >>) >>

\* The body holds a byte that occurs in no UTF-8 text (C0, C1, F5..FF).
Undecodable(body) ==
    \E i \in DOMAIN body : body[i] \in {192, 193} \cup (245..255)

\* C12: when the bytes read at finalization are not valid UTF-8, the
\* finalizing pull produces a Utf8 error and no Scan error, whatever "OK" or
\* "FOUND" the bytes hold (a clean verdict is not given either), and every
\* later pull reports end-of-sequence and produces nothing.
C12_DecodeFailureIsDistinct ==
    /\ [] ( \A k \in DOMAIN response :
                Undecodable(response[k]) =>
                    /\ FinalItems = << ErrorUtf8 >>
                    /\ \A i \in DOMAIN out : out[i].t # "Scan" )
    /\ [][ (\E k \in DOMAIN response : Undecodable(response[k]))
           => (last' = "None" /\ out' = out) ]_vars

\* Undecodable bytes that hold "FOUND" were read after a chunk, and the relay
\* was pulled again.
C12_Witness ==
    /\ response = << RespBadFound >>
    /\ out = << OkItem(Full), ErrorUtf8 >>
    /\ ReportedEnd

\* C13: the preamble write has been attempted exactly when a chunk has been
\* pulled from upstream; and when upstream ends without having yielded a
\* chunk, the finalizing pull writes the four terminator bytes as the only
\* bytes on the connection and then reads the response (no write failing).
C13_EmptyUpstream ==
    /\ (Attempts("START") # { }) <=> (DataOf(input.yielded) # << >>)
    /\ (finished /\ DataOf(input.yielded) = << >>) =>
          /\ Attempts("START") = { } /\ Attempts("LEN") = { } /\ Attempts("DATA") = { }
          /\ Attempts("FINISH") = {1}
          /\ inner = take(pack(<<0, 0, 0, 0>>), trace[1].got)
          /\ trace[1].ok =>
                /\ unpack(inner) = <<0, 0, 0, 0>>
                /\ Attempts("READ") = {2}
                /\ (trace[2].ok => Len(response) = 1)

\* Upstream ended at once; the terminator alone went out and a clean
\* response came back.
C13_Witness ==
    /\ input = [yielded |-> << >>, done |-> TRUE]
    /\ inner = FINISH
    /\ response = << RespStreamOk >>
    /\ ReportedEnd /\ out = << >>

\* The bytes of payload slices the connection has accepted, in order.
RECURSIVE PayloadOf(_)
PayloadOf(log) ==
    IF log = << >> THEN << >>
    ELSE cat(IF Head(log).op = "DATA" THEN take(Head(log).buf, Head(log).got) ELSE << >>,
             PayloadOf(Tail(log)))

\* The concatenation of a sequence of byte strings.
RECURSIVE Concat(_)
Concat(cs) == IF cs = << >> THEN << >> ELSE cat(Head(cs), Concat(Tail(cs)))

\* C14 as stated: whenever a byte of a length prefix or of a payload slice
\* has reached the connection, the whole preamble was written successfully
\* before it, once, as the first ten bytes on the connection.
C14_AsStated ==
    (\E i \in DOMAIN trace : trace[i].op \in { "LEN", "DATA" } /\ trace[i].got > 0)
    => /\ Attempts("START") = {1}
       /\ trace[1].ok
       /\ unpack(take(inner, 10)) = <<122, 73, 78, 83, 84, 82, 69, 65, 77, 0>>

\* C15 as stated: in every state the chunks yielded so far, concatenated,
\* are a prefix of the payload bytes written so far, and equal to them when
\* no write has failed.
C15_AsStated ==
    LET y == Concat(DataOf(out))
        p == PayloadOf(trace)
    IN  /\ take(p, blen(y)) = y
        /\ (NoConnectionFailure => p = y)

\* The number a four-byte big-endian field holds.
FieldValue(buf) ==
    LET b == unpack(buf)
    IN  b[1] * 16777216 + b[2] * 65536 + b[3] * 256 + b[4]

\* The log entries a step adds to trace.
Added == SubSeq(trace', Len(trace) + 1, Len(trace'))

\* The step pulls a chunk of length 0 from upstream.
PullsEmptyChunk ==
    /\ Len(input'.yielded) = Len(input.yielded) + 1
    /\ input'.yielded[Len(input'.yielded)] = SomeOk(<< >>)

\* C16: every length prefix written for a slice is a four-byte field holding
\* an L with 0 < L <= CHUNK_SIZE, and once it is written the next write is
\* the payload of exactly L bytes (all L of them on the connection when that
\* write succeeds); payload is written only behind its prefix; a pull of an
\* empty chunk writes no prefix and no payload, only the preamble when it is
\* the first chunk, and still yields the chunk; so the only four-byte zero
\* field ever written is the terminator.
C16_SubChunkLengthBound ==
    /\ [] ( /\ \A i \in Attempts("LEN") :
                  /\ trace[i].n = 4
                  /\ FieldValue(trace[i].buf) > 0
                  /\ FieldValue(trace[i].buf) <= CHUNK_SIZE
                  /\ trace[i].ok =>
                        /\ i + 1 \in Attempts("DATA")
                        /\ trace[i + 1].n = FieldValue(trace[i].buf)
                        /\ trace[i + 1].ok => trace[i + 1].got = FieldValue(trace[i].buf)
            /\ \A i \in Attempts("DATA") :
                  i - 1 \in Attempts("LEN") /\ trace[i - 1].ok
            /\ \A i \in DOMAIN trace :
                  (trace[i].op \in { "START", "LEN", "FINISH" } /\ trace[i].n = 4
                     /\ FieldValue(trace[i].buf) = 0)
                  => trace[i].op = "FINISH" )
    /\ [][ PullsEmptyChunk =>
             /\ \A k \in DOMAIN Added : Added[k].op = "START"
             /\ Len(Added) = (IF DataOf(input.yielded) = << >> THEN 1 ELSE 0)
             /\ out' = Append(out, IF \A k \in DOMAIN Added : Added[k].ok
                                   THEN OkItem(<< >>) ELSE ErrorIo) ]_vars

\* An empty first chunk drew the preamble alone and was yielded; the next
\* chunk went out as a full frame and a one-byte frame.
C16_Witness ==
    /\ out = << OkItem(<< >>), OkItem(Big) >>
    /\ Len(trace) = 5
    /\ trace[1].op = "START"
    /\ FieldValue(trace[2].buf) = CHUNK_SIZE /\ trace[3].got = CHUNK_SIZE
    /\ FieldValue(trace[4].buf) = 1 /\ trace[5].got = 1

\* The step is a pull in which upstream is pending.
PendingPull == input' = input /\ ~input.done

\* The step is a pull in which upstream yields an error.
ErrorPull ==
    /\ Len(input'.yielded) = Len(input.yielded) + 1
    /\ input'.yielded[Len(input'.yielded)].t = "Err"

\* C17: construction, a pull in which upstream is pending and a pull in
\* which upstream yields an error write nothing to and read nothing from the
\* connection and leave started and finished as they were; a pending
\* upstream makes the pull report pending and produce no item.
C17_FrameOfNonRelayingSteps ==
    /\ inner = << >> /\ trace = << >> /\ response = << >>
    /\ ~started /\ ~finished /\ out = << >>
    /\ [][ /\ (PendingPull \/ ErrorPull) =>
                UNCHANGED <<inner, trace, response, started, finished>>
           /\ PendingPull => (last' = "Pending" /\ out' = out)
           /\ ErrorPull => Len(out') = Len(out) + 1 ]_vars

\* After a chunk was relayed upstream yielded an error and then was pending:
\* the connection holds the preamble and the one frame, nothing more.
C17_Witness ==
    /\ input.yielded = << SomeOk(Hello), SomeErr(UpstreamError) >>
    /\ last = "Pending"
    /\ started /\ ~finished
    /\ Len(trace) = 3 /\ Len(out) = 2

\* C18: once finished is set every pull reports end-of-sequence, produces
\* no item, writes and reads nothing and leaves the relay state unchanged.
C18_DoneIsIdempotent ==
    [][ finished =>
          /\ last' = "None"
          /\ UNCHANGED <<inner, started, finished, trace, response, out>> ]_vars

\* The finalizing pull yielded the scan error, and a later pull reported
\* the end.
C18_Witness ==
    /\ finished /\ ReportedEnd
    /\ response = << RespFound >>
    /\ Len(out) = 2 /\ out[1] = OkItem(Hello)
    /\ out[2].t = "Scan" /\ unpack(out[2].v) = RespFound

\* C19: when upstream yields only chunks and no connection operation fails,
\* a consumer that keeps pulling eventually sees end-of-sequence, and by then
\* exactly one terminator write and exactly one response read have happened.
C19_FinalizationIsReached ==
    /\ [](NoUpstreamError /\ NoConnectionFailure) => <>ReportedEnd
    /\ [] ( (ReportedEnd /\ NoUpstreamError /\ NoConnectionFailure) =>
               /\ Cardinality(Attempts("FINISH")) = 1
               /\ Cardinality(Attempts("READ")) = 1 )

\* Two chunks were relayed, then the end was reported after one terminator
\* and one read.
C19_Witness ==
    /\ ReportedEnd /\ NoUpstreamError /\ NoConnectionFailure
    /\ Len(input.yielded) = MaxItems
    /\ Attempts("FINISH") = { Len(trace) - 1 }
    /\ Attempts("READ") = { Len(trace) }
    /\ Len(out) = MaxItems + 1

====
